---- MODULE Spec2Model ----
(***************************************************************************)
(* Model of the BingChat session client of larkbing (src/lib/bing-chat.ts). *)
(*                                                                         *)
(* The source file holds two revisions of the class:                       *)
(*   variant "A"  lines   1-277  (throttled progress, single-flight        *)
(*                                initConversation, local `ws`)             *)
(*   variant "B"  lines 279-563  (this.ws, direct onProgress)              *)
(* One session object is modelled; `variant` selects the revision.         *)
(*                                                                         *)
(* Execution is the single-threaded node event loop: every action below is *)
(* one macrotask (a call, a socket event, a timer callback, a completed    *)
(* fetch) together with the promise continuations it schedules.            *)
(***************************************************************************)
EXTENDS Integers, Sequences, FiniteSets, TLC

(* ------------------------------ bounds -------------------------------- *)
MaxCalls == 2        \* sendMessage calls made on the session
MaxReceived == 2     \* 'message' events handled per exchange
MaxPayload == 2      \* frames in one inbound payload
MaxSettle == 2       \* resolve/reject invocations counted per exchange
MaxUpdates == 3      \* partial-update frames whose fragments are followed
MaxIds == 2          \* distinct messageId values
MaxTexts == 2        \* distinct fragment texts
MaxMessages == 3     \* fragments in the message list of a completion frame
MaxTicks == 50       \* clock ticks followed while progress is throttled
MaxTimedReceived == 11   \* 'message' events per exchange when time is followed
MaxSenders == 2      \* senders of inbound platform messages
MaxPerSender == 2    \* messages with the same text one sender sends
MaxDeliveries == 4   \* receive events delivered to the dispatcher
MaxProgress == 3     \* onProgress invocations for one inbound message

(* --------------------------- program constants ------------------------ *)
KeepaliveEvery == 10
ThrottleMs == 500    \* throttle(onProgress, 500)
RespondMs == 8000    \* delay of the respond timer
ConversationTimerMs == 3600 * 24     \* delay of the conversation timer

Exchanges == 1..MaxCalls
NoExchange == 0

Variants == {"A", "B"}

\* frames as the message handler classifies them
\*   ack            the text '{}'
\*   update         type 1, embedded fragment without messageType
\*   status         type 1, embedded fragment with a messageType
\*   complete       type 2, item.messages has a fragment without messageType
\*   completeEmpty  type 2, item.messages has no fragment without messageType
\*   closed         type 3
\*   other          any other segment that parses to an object or a number,
\*                  or does not parse and is kept as a string
\*   noFragment     type 1 without arguments[0].messages, or the JSON value
\*                  null
FrameKinds == {"ack", "update", "status", "complete", "completeEmpty",
               "closed", "other", "noFragment"}

Payloads == UNION {[1..n -> FrameKinds] : n \in 0..MaxPayload}

VARIABLES
  variant,
  ws,                        \* this.ws: exchange whose socket it is, or 0
  initializingConversation,
  initConversationCallback,  \* sequence of waiting exchanges
  conversationExpired,
  conversationId, clientId, conversationSignature,   \* 0 = undefined
  isStartOfSession,
  conversationTimer,         \* TRUE when the timer is armed
  respondTimer,              \* exchange whose closure the armed timer runs, or 0
  pc,                        \* position of each sendMessage call
  promise,                   \* state of the promise sendMessage returned
  error,                     \* rejection reason
  settleCalls,               \* resolve/reject invocations of the exchange
  sock,                      \* state of the socket each exchange opened
  received,
  sent,                      \* frames written to each socket
  fetchSt,                   \* conversation-creation request of each call
  thr,                       \* lodash throttle state of throttledOnProgress
  lateProgress,              \* onProgress delivered after settlement
  crashed,                   \* an exception escaped an event handler
  unhandled,                 \* a promise rejection nobody handles
  inSession,                 \* the dispatcher's session[userID] is this object
  sinceArmed,                \* ms since the conversation timer was last armed
  sinceRespond,              \* ms since the armed respond timer was set
  \* the content of the frames of one exchange
  updateMessages,            \* A: the fragment list of the exchange
  result,                    \* B: the result object of the exchange
  seen,                      \* fragments of the type 1 frames handled so far
  progress,                  \* argument of the latest progress call
  completion,                \* item.messages of the type 2 frames handled
  final,                     \* the value sendMessage resolved with
  \* the clock and the state of lodash's throttle(onProgress, 500)
  now,                       \* Date.now(), in ms since the exchange began
  lastCallTime, lastInvokeTime, timerId, lastArgs,
  calls,                     \* onProgress invocations that reached the caller
  fresh,                     \* the latest invocation saw every fragment so far
  fedNow,                    \* a fragment arrived at the present instant
  everyTick                  \* so far a fragment arrived at every instant

\* the dispatcher: the session map and the handled-message cache of main.ts
VARIABLES
  session,        \* key -> the BingChat object stored under it, or 0
  cache,          \* message ids with a live `message_id:` entry
  hasUserId,      \* sender -> whether its events carry sender_id.user_id
  objects,        \* BingChat objects constructed so far
  handled,        \* message id -> times messageHandler ran for it
  forwarded,      \* <<sender, object>> for every sendMessage call made
  current,        \* sender -> object of its calls since its last '/reset'
  deliveries      \* receive events delivered so far

\* the progressive reply to one inbound message (main.ts, first revision)
VARIABLES
  cardID,         \* 0 is undefined
  replyStatus,
  chatMessage,    \* FALSE is undefined
  completionPc,   \* the `await createCompletion(...)` of messageHandler
  creating,       \* a replyCard(..., true) awaits its response
  renders,        \* the card requests issued, in order
  progressCalls   \* onProgress invocations so far

mainVars == <<variant, ws, initializingConversation, initConversationCallback,
          conversationExpired, conversationId, clientId,
          conversationSignature, isStartOfSession, conversationTimer,
          respondTimer, pc, promise, error, settleCalls, sock, received,
          sent, fetchSt, thr, lateProgress, crashed, unhandled, inSession,
          sinceArmed, sinceRespond>>

\* frame contents, followed by the specifications further down
fragVars == <<updateMessages, result, seen, progress, completion, final>>

\* the clock and the throttle, followed by the specification further down
thrVars == <<now, lastCallTime, lastInvokeTime, timerId, lastArgs, calls,
             fresh, fedNow, everyTick>>

dispVars == <<session, cache, hasUserId, objects, handled, forwarded, current,
              deliveries>>

cardVars == <<cardID, replyStatus, chatMessage, completionPc, creating,
              renders, progressCalls>>

vars == <<mainVars, fragVars, thrVars, dispVars, cardVars>>

\* the whole state as one value, so that handlers compose
Cur ==
  [variant |-> variant, ws |-> ws,
   initializingConversation |-> initializingConversation,
   initConversationCallback |-> initConversationCallback,
   conversationExpired |-> conversationExpired,
   conversationId |-> conversationId, clientId |-> clientId,
   conversationSignature |-> conversationSignature,
   isStartOfSession |-> isStartOfSession,
   conversationTimer |-> conversationTimer, respondTimer |-> respondTimer,
   pc |-> pc, promise |-> promise, error |-> error,
   settleCalls |-> settleCalls, sock |-> sock, received |-> received,
   sent |-> sent, fetchSt |-> fetchSt, thr |-> thr,
   lateProgress |-> lateProgress,
   crashed |-> crashed, unhandled |-> unhandled, inSession |-> inSession,
   sinceArmed |-> sinceArmed, sinceRespond |-> sinceRespond]

Commit(s) ==
  /\ variant' = s.variant
  /\ ws' = s.ws
  /\ initializingConversation' = s.initializingConversation
  /\ initConversationCallback' = s.initConversationCallback
  /\ conversationExpired' = s.conversationExpired
  /\ conversationId' = s.conversationId
  /\ clientId' = s.clientId
  /\ conversationSignature' = s.conversationSignature
  /\ isStartOfSession' = s.isStartOfSession
  /\ conversationTimer' = s.conversationTimer
  /\ respondTimer' = s.respondTimer
  /\ pc' = s.pc
  /\ promise' = s.promise
  /\ error' = s.error
  /\ settleCalls' = s.settleCalls
  /\ sock' = s.sock
  /\ received' = s.received
  /\ sent' = s.sent
  /\ fetchSt' = s.fetchSt
  /\ thr' = s.thr
  /\ lateProgress' = s.lateProgress
  /\ crashed' = s.crashed
  /\ unhandled' = s.unhandled
  /\ inSession' = s.inSession
  /\ sinceArmed' = s.sinceArmed
  /\ sinceRespond' = s.sinceRespond
  /\ UNCHANGED <<fragVars, thrVars, dispVars, cardVars>>

MainInit ==
  /\ variant \in Variants
  /\ ws = NoExchange
  /\ initializingConversation = FALSE
  /\ initConversationCallback = <<>>
  /\ conversationExpired = TRUE
  /\ conversationId = 0
  /\ clientId = 0
  /\ conversationSignature = 0
  /\ isStartOfSession = TRUE
  /\ conversationTimer = FALSE
  /\ respondTimer = NoExchange
  /\ pc = [e \in Exchanges |-> "idle"]
  /\ promise = [e \in Exchanges |-> "none"]
  /\ error = [e \in Exchanges |-> "none"]
  /\ settleCalls = [e \in Exchanges |-> 0]
  /\ sock = [e \in Exchanges |-> "none"]
  /\ received = [e \in Exchanges |-> 0]
  /\ sent = [e \in Exchanges |-> <<>>]
  /\ fetchSt = [e \in Exchanges |-> "none"]
  /\ thr = [e \in Exchanges |-> "idle"]
  /\ lateProgress = [e \in Exchanges |-> FALSE]
  /\ crashed = FALSE
  /\ unhandled = FALSE
  /\ inSession = TRUE
  /\ sinceArmed = 0
  /\ sinceRespond = 0

\* `let updateMessages = []` and the `result` literal with text ''
FragInit ==
  /\ updateMessages = <<>>
  /\ result = [text |-> 0]
  /\ seen = <<>>
  /\ progress = <<>>
  /\ completion = <<>>
  /\ final = [kind |-> "none", messages |-> <<>>, text |-> 0]

\* undefined, for lastCallTime and timerId
NoTime == 0 - 1

\* lodash debounce as throttle() creates it, before its first call
ThrottleInit ==
  /\ now = 0
  /\ lastCallTime = NoTime
  /\ lastInvokeTime = 0
  /\ timerId = NoTime
  /\ lastArgs = FALSE
  /\ calls = 0
  /\ fresh = TRUE
  /\ fedNow = FALSE
  /\ everyTick = TRUE

\* senders of inbound messages, and the messages each of them sends
Senders == 1..MaxSenders

\* the key `'common'` of the session map; the other keys are user ids
Common == 0

Texts == {"/reset", "question"}

\* message_id: the platform issues one per message sent
MessageIds == Senders \X Texts \X (1..MaxPerSender)

\* `const session = {}`, `new nodeCache()`, before the first event
DispStart ==
  /\ session = [k \in {Common} \cup Senders |-> 0]
  /\ cache = {}
  /\ objects = 0
  /\ handled = [m \in MessageIds |-> 0]
  /\ forwarded = {}
  /\ current = [w \in Senders |-> 0]
  /\ deliveries = 0

DispInit == DispStart /\ hasUserId = [w \in Senders |-> TRUE]

\* `let cardID`, `let replyStatus = 'noReply'`, `let chatMessage`
CardInit ==
  /\ cardID = 0
  /\ replyStatus = "noReply"
  /\ chatMessage = FALSE
  /\ completionPc = "awaiting"
  /\ creating = FALSE
  /\ renders = <<>>
  /\ progressCalls = 0

Init == MainInit /\ FragInit /\ ThrottleInit /\ DispInit /\ CardInit

(* ------------------------- the ws library ----------------------------- *)
\* WebSocket.terminate(): a connecting socket aborts its handshake (an
\* 'error' and a 'close' event follow), an open one is destroyed (a 'close'
\* event follows), a closing or closed one is left alone.
Terminate(s, k) ==
  [s EXCEPT !.sock[k] =
     CASE @ = "connecting" -> "aborting"
       [] @ = "open" -> "terminated"
       [] OTHER -> @]

\* an exception thrown in a handler: the rest of the handler does not run
Throw(s) == [s EXCEPT !.crashed = TRUE]

Frame(kind, e, s) ==
  [kind |-> kind, by |-> e,
   isStartOfSession |-> IF kind = "query" THEN s.isStartOfSession ELSE FALSE,
   conversationId |-> IF kind = "query" THEN s.conversationId ELSE 0,
   clientId |-> IF kind = "query" THEN s.clientId ELSE 0,
   conversationSignature |->
     IF kind = "query" THEN s.conversationSignature ELSE 0]

\* WebSocket.send on socket k: throws while connecting, writes while open,
\* drops the data once the socket is closing or closed
WsSend(s, k, f) ==
  CASE s.sock[k] = "connecting" -> Throw(s)
    [] s.sock[k] = "open" -> [s EXCEPT !.sent[k] = Append(@, f)]
    [] OTHER -> s

(* --------------------------- BingChat --------------------------------- *)
\* send(content): A uses this.ws?.send, B uses this.ws!.send
send(s, e, kind) ==
  IF s.crashed THEN s
  ELSE IF s.ws = NoExchange
       THEN IF s.variant = "A" THEN s ELSE Throw(s)
       ELSE WsSend(s, s.ws, Frame(kind, e, s))

keepalive(s, e) == send(s, e, "keepalive")

\* a cleanup that clears the timers and the socket but keeps the handle
cleanup_KeepsHandle(s) ==
  IF s.crashed THEN s
  ELSE LET t == IF s.ws = NoExchange THEN s ELSE Terminate(s, s.ws)
       IN [t EXCEPT !.ws = NoExchange,
                    !.conversationTimer = FALSE,
                    !.respondTimer = NoExchange,
                    !.sinceRespond = 0]

\* cleanup(): A uses this.ws?.terminate(), B uses this.ws!.terminate()
cleanup(s) ==
  IF s.crashed THEN s
  ELSE IF s.variant = "B" /\ s.ws = NoExchange
       THEN \* both clearTimeout calls ran, then terminate() threw
            Throw([s EXCEPT !.conversationTimer = FALSE,
                            !.respondTimer = NoExchange,
                            !.sinceRespond = 0])
       ELSE LET t == IF s.ws = NoExchange THEN s ELSE Terminate(s, s.ws)
            IN [t EXCEPT
                  !.ws = NoExchange,
                  !.initializingConversation =
                     IF s.variant = "A" THEN FALSE ELSE @,
                  !.initConversationCallback =
                     IF s.variant = "A" THEN <<>> ELSE @,
                  !.conversationExpired = TRUE,
                  !.conversationId = 0,
                  !.clientId = 0,
                  !.conversationSignature = 0,
                  !.isStartOfSession = TRUE,
                  !.conversationTimer = FALSE,
                  !.respondTimer = NoExchange,
                  !.sinceRespond = 0]

\* clearTimeout, then setTimeout(..., 3600 * 24)
resetConversationTimer(s) ==
  IF s.crashed THEN s
  ELSE [s EXCEPT !.conversationTimer = TRUE, !.sinceArmed = 0]

\* clearTimeout, then setTimeout(..., 8000)
resetRespondTimer(s, e) ==
  IF s.crashed THEN s
  ELSE [s EXCEPT !.respondTimer = e, !.sinceRespond = 0]

Bump(n) == IF n < MaxSettle THEN n + 1 ELSE n

\* resolve(...) of the promise sendMessage returned
resolve(s, e) ==
  IF s.crashed THEN s
  ELSE [s EXCEPT !.settleCalls[e] = Bump(@),
                 !.promise[e] = IF @ = "pending" THEN "resolved" ELSE @]

\* reject(new Error(...))
reject(s, e, why) ==
  IF s.crashed THEN s
  ELSE [s EXCEPT !.settleCalls[e] = Bump(@),
                 !.promise[e] = IF @ = "pending" THEN "rejected" ELSE @,
                 !.error[e] = IF s.promise[e] = "pending" THEN why ELSE @]

\* the promise executor of sendMessage: new WebSocket(...) and its handlers
StartExchange(s, e) ==
  IF s.crashed THEN s
  ELSE [s EXCEPT !.pc[e] = "started",
                 !.sock[e] = "connecting",
                 !.ws = IF s.variant = "B" THEN e ELSE @]

\* onProgress(...) reaching the caller
Deliver(s, e) ==
  IF s.crashed THEN s
  ELSE [s EXCEPT !.lateProgress[e] = @ \/ s.promise[e] # "pending"]

\* throttle(onProgress, 500): the leading call is delivered and starts the
\* wait; calls during the wait are kept for the trailing edge
throttledOnProgress(s, e) ==
  IF s.crashed THEN s
  ELSE CASE s.thr[e] = "idle" -> [Deliver(s, e) EXCEPT !.thr[e] = "wait"]
         [] s.thr[e] = "wait" -> [s EXCEPT !.thr[e] = "waitPending"]
         [] OTHER -> s

\* one iteration of `for (const message of messages)`
HandleFrame(s, e, f) ==
  IF s.crashed THEN s
  ELSE IF s.variant = "A"
  THEN CASE f \in {"update", "status"} -> throttledOnProgress(s, e)
         [] f \in {"complete", "completeEmpty"} -> resolve(cleanup(s), e)
         \* update.arguments[0].messages[0], or null.type: a TypeError
         [] f = "noFragment" -> Throw(s)
         [] OTHER -> s
  ELSE CASE f = "update" -> Deliver(s, e)
         [] f = "complete" -> resolve(cleanup(s), e)
         [] f = "closed" -> resolve(cleanup(s), e)
         [] f = "noFragment" -> Throw(s)
         [] OTHER -> s

RECURSIVE HandleFrames(_, _, _, _)
HandleFrames(s, e, p, i) ==
  IF i > Len(p) THEN s
  ELSE HandleFrames(HandleFrame(s, e, p[i]), e, p, i + 1)

\* the message handler without `this.isStartOfSession = false`
OnMessage_KeepsStartFlag(s, e, p) ==
  IF Len(p) = 0 THEN s
  ELSE
    LET s1 == resetRespondTimer(s, e)
        s2 == [s1 EXCEPT !.received[e] = @ + 1]
        s3 == IF s1.received[e] % KeepaliveEvery = 0
              THEN keepalive(s2, e) ELSE s2
    IN IF Len(p) = 1 /\ p[1] = "ack"
       THEN resetConversationTimer(send(s3, e, "query"))
       ELSE HandleFrames(s3, e, p, 1)

\* ws.on('message', ...) of exchange e
OnMessage(s, e, p) ==
  IF Len(p) = 0 THEN s
  ELSE
    LET s1 == resetRespondTimer(s, e)
        initialized == Len(p) = 1 /\ p[1] = "ack"
        \* received++ % 10 === 0: the test reads the count before the increment
        s2 == [s1 EXCEPT !.received[e] = @ + 1]
        s3 == IF s1.received[e] % KeepaliveEvery = 0
              THEN keepalive(s2, e) ELSE s2
    IN IF initialized
       THEN LET s4 == send(s3, e, "query")
                s5 == IF s4.crashed THEN s4
                      ELSE [s4 EXCEPT !.isStartOfSession = FALSE]
            IN resetConversationTimer(s5)
       ELSE HandleFrames(s3, e, p, 1)

\* ws.on('open', ...)
OnOpen(s, e) == send(resetRespondTimer(s, e), e, "protocol")

\* ws.on('error', ...)
OnError(s, e) == reject(cleanup(s), e, "wserror")

\* ws.on('close', ...)
OnClose(s, e) == cleanup(s)

\* the respond timer's callback
OnRespondTimeout(s, e) == reject(cleanup(s), e, "timeout")

\* the conversation timer's callback
OnConversationTimeout(s) == cleanup(s)

\* continuation of `await this.initConversation()` when it is rejected
InitRejected(s, e, why) ==
  [s EXCEPT !.pc[e] = "initFailed",
            !.promise[e] = "rejected",
            !.error[e] = why]

RECURSIVE StartAll(_, _, _)
StartAll(s, cbs, i) ==
  IF i > Len(cbs) THEN s
  ELSE StartAll(StartExchange(s, cbs[i]), cbs, i + 1)

RECURSIVE RejectAll(_, _, _, _)
RejectAll(s, cbs, i, why) ==
  IF i > Len(cbs) THEN s
  ELSE RejectAll(InitRejected(s, cbs[i], why), cbs, i + 1, why)

\* initConversation() up to its fetch
initConversation(s, e) ==
  IF s.variant = "A"
  THEN LET s1 == [s EXCEPT !.initConversationCallback = Append(@, e)]
       IN IF s1.initializingConversation THEN s1
          ELSE [s1 EXCEPT !.initializingConversation = TRUE,
                          !.fetchSt[e] = "inflight"]
  ELSE [s EXCEPT !.fetchSt[e] = "inflight"]

\* the JSON body of a creation response with HTTP success.  A field is the
\* value the server issued for request e, or missing (0); three bodies are
\* drawn: complete, without conversationSignature, without any of the three
Results(e) ==
  {[conversationId |-> e, clientId |-> e, conversationSignature |-> sig] :
     sig \in {e, 0}}
  \cup {[conversationId |-> 0, clientId |-> 0, conversationSignature |-> 0]}

\* initConversation() after `await res.json()`: the fields of the body are
\* copied as they come
InitSucceeded(s, e, json) ==
  LET s1 == [s EXCEPT !.fetchSt[e] = "ok",
                      !.conversationExpired = FALSE,
                      !.conversationId = json.conversationId,
                      !.clientId = json.clientId,
                      !.conversationSignature = json.conversationSignature,
                      !.isStartOfSession = TRUE]
      s2 == resetConversationTimer(s1)
  IN IF s.variant = "A"
     THEN StartAll([s2 EXCEPT !.initializingConversation = FALSE,
                              !.initConversationCallback = <<>>],
                   s2.initConversationCallback, 1)
     ELSE StartExchange(s2, e)

\* initConversation() when res.ok is false
InitHttpError(s, e) ==
  IF s.variant = "A"
  THEN RejectAll([s EXCEPT !.fetchSt[e] = "failed",
                           !.initializingConversation = FALSE,
                           !.initConversationCallback = <<>>],
                 s.initConversationCallback, 1, "http")
  ELSE InitRejected([s EXCEPT !.fetchSt[e] = "failed"], e, "http")

\* fetch() or res.json() throws: in A the exception leaves the async promise
\* executor and nobody handles it, in B it rejects sendMessage
InitThrew(s, e, crash) ==
  IF s.variant = "A"
  THEN [s EXCEPT !.fetchSt[e] = "threw",
                 !.unhandled = TRUE,
                 !.crashed = crash]
  ELSE InitRejected([s EXCEPT !.fetchSt[e] = "threw"], e, "network")

(* ------------------------------ actions ------------------------------- *)
\* createCompletion looks the user's object up in `session` and invokes its
\* sendMessage; calls are numbered in the order made
SendMessage(e) ==
  /\ ~crashed
  /\ inSession
  /\ pc[e] = "idle"
  /\ \A d \in Exchanges : d < e => pc[d] # "idle"
  /\ LET s1 == [Cur EXCEPT !.promise[e] = "pending", !.pc[e] = "awaitInit"]
     IN Commit(IF conversationExpired
               THEN initConversation(s1, e)
               ELSE StartExchange(s1, e))

\* the creation request answers: HTTP success, HTTP failure, network error
FetchRespond(e) ==
  /\ ~crashed
  /\ fetchSt[e] = "inflight"
  /\ \/ Commit([Cur EXCEPT !.fetchSt[e] = "json"])
     \/ Commit(InitHttpError(Cur, e))
     \/ \E crash \in BOOLEAN : Commit(InitThrew(Cur, e, crash))

\* res.json() completes or throws
JsonDone(e) ==
  /\ ~crashed
  /\ fetchSt[e] = "json"
  /\ \/ \E json \in Results(e) : Commit(InitSucceeded(Cur, e, json))
     \/ \E crash \in BOOLEAN : Commit(InitThrew(Cur, e, crash))

WsOpen(e) ==
  /\ ~crashed
  /\ sock[e] = "connecting"
  /\ Commit(OnOpen([Cur EXCEPT !.sock[e] = "open"], e))

WsMessage(e) ==
  /\ ~crashed
  /\ sock[e] = "open"
  /\ received[e] < MaxReceived
  /\ \E p \in Payloads : Commit(OnMessage(Cur, e, p))

\* 'error' of a socket: a failed or aborted handshake emits 'error' and
\* 'close' back to back, an open socket emits 'close' later
WsError(e) ==
  /\ ~crashed
  /\ \/ /\ sock[e] \in {"connecting", "aborting"}
        /\ Commit(OnClose(OnError([Cur EXCEPT !.sock[e] = "closed"], e), e))
     \/ /\ sock[e] = "open"
        /\ Commit(OnError([Cur EXCEPT !.sock[e] = "errored"], e))

\* 'close' of a socket: the peer closed it, or it was terminated or errored
WsClose(e) ==
  /\ ~crashed
  /\ sock[e] \in {"open", "terminated", "errored"}
  /\ Commit(OnClose([Cur EXCEPT !.sock[e] = "closed"], e))

RespondTimerFire ==
  /\ ~crashed
  /\ respondTimer # NoExchange
  /\ Commit(OnRespondTimeout(Cur, respondTimer))

ConversationTimerFire ==
  /\ ~crashed
  /\ conversationTimer
  /\ Commit(OnConversationTimeout(Cur))

\* the throttle's own timer: the trailing call, when one is kept
ThrottleFire(e) ==
  /\ ~crashed
  /\ thr[e] # "idle"
  /\ Commit(IF thr[e] = "waitPending"
            THEN [Deliver(Cur, e) EXCEPT !.thr[e] = "idle"]
            ELSE [Cur EXCEPT !.thr[e] = "idle"])

\* the dispatcher handles the text '/reset': `delete session[userID]`
Reset ==
  /\ ~crashed
  /\ inSession
  /\ Commit([Cur EXCEPT !.inSession = FALSE])

Next ==
  \/ \E e \in Exchanges : SendMessage(e)
  \/ \E e \in Exchanges : FetchRespond(e)
  \/ \E e \in Exchanges : JsonDone(e)
  \/ \E e \in Exchanges : WsOpen(e)
  \/ \E e \in Exchanges : WsMessage(e)
  \/ \E e \in Exchanges : WsError(e)
  \/ \E e \in Exchanges : WsClose(e)
  \/ RespondTimerFire
  \/ ConversationTimerFire
  \/ \E e \in Exchanges : ThrottleFire(e)
  \/ Reset

Spec == Init /\ [][Next]_vars

(* ------------------------------- claims ------------------------------- *)
Pending(e) == promise[e] = "pending"

\* creation requests whose answer has not been handled yet
InFlight == {e \in Exchanges : fetchSt[e] \in {"inflight", "json"}}

SocketLive(k) == k \in {"connecting", "open"}

\* C1: within one exchange resolve and reject are invoked at most once in
\* total, and no onProgress is delivered once the exchange has settled.
C1_SettledExactlyOnce ==
  \A e \in Exchanges : settleCalls[e] <= 1 /\ ~lateProgress[e]

\* C2: when the response timer armed by exchange e fires, the pending
\* sendMessage of e is rejected with the response-timeout error and the
\* socket that e opened is closed.
C2_ResponseTimeoutClosesTransport ==
  [][\A e \in Exchanges :
       (respondTimer = e /\ RespondTimerFire) =>
          /\ Pending(e) => (promise'[e] = "rejected" /\ error'[e] = "timeout")
          /\ ~SocketLive(sock'[e])]_vars

\* C3: at any time at most one conversation-creation request of the session
\* is in flight.
C3_SingleCreationInFlight == Cardinality(InFlight) <= 1

\* C4: a caller awaiting handle creation is never left behind: while the
\* process runs, a caller still waiting has a creation request in flight
\* that will settle it, and once no request is in flight no creation is
\* marked as underway, so that a new one can start.
C4_WaitersSettledTogether ==
  ~crashed =>
     /\ \A e \in Exchanges : pc[e] = "awaitInit" => InFlight # {}
     /\ InFlight = {} => ~initializingConversation

\* C5: a sendMessage made while an earlier sendMessage of the session is
\* unsettled is rejected with the session-busy error and opens no socket;
\* at most one exchange is unsettled at any time.
C5_OverlapRejectedBusy ==
  [][\A e \in Exchanges :
       (SendMessage(e) /\ \E d \in Exchanges : Pending(d)) =>
          /\ promise'[e] = "rejected"
          /\ error'[e] = "busy"
          /\ sock'[e] = "none"
          /\ Cardinality({d \in Exchanges : promise'[d] = "pending"}) <= 1]_vars

\* C6: every frame written to a socket was sent by the exchange that opened
\* that socket.
C6_NoSharedTransport ==
  \A k \in Exchanges : \A i \in 1..Len(sent[k]) : sent[k][i].by = k

\* C7: an 'error' or a 'close' event of the socket of a pending exchange
\* tears the socket down, clears both timers and rejects the exchange.
C7_ErrorOrCloseRejects ==
  [][\A e \in Exchanges :
       (Pending(e) /\ (WsError(e) \/ WsClose(e))) =>
          /\ promise'[e] = "rejected"
          /\ ~SocketLive(sock'[e])
          /\ respondTimer' = NoExchange
          /\ ~conversationTimer']_vars

\* C8: the conversation timer firing closes the transport, clears both
\* timers and the handle fields, and rejects every exchange pending at that
\* moment.
C8_ConversationTimeoutRejects ==
  [][ConversationTimerFire =>
        /\ \A e \in Exchanges : Pending(e) => promise'[e] = "rejected"
        /\ \A e \in Exchanges : ~SocketLive(sock'[e])
        /\ respondTimer' = NoExchange
        /\ ~conversationTimer'
        /\ conversationId' = 0 /\ clientId' = 0
        /\ conversationSignature' = 0]_vars

\* the session as a fresh one: expired, no handle, no transport, no timer,
\* no creation marked underway, and the process unharmed
Clean ==
  /\ conversationExpired
  /\ conversationId = 0 /\ clientId = 0 /\ conversationSignature = 0
  /\ ws = NoExchange
  /\ ~conversationTimer
  /\ respondTimer = NoExchange
  /\ ~initializingConversation
  /\ ~crashed
  /\ ~unhandled

\* a failure of exchange e: its creation request fails, its socket errors
\* or closes while it is pending, or its response timer fires
FailureOf(e) ==
  \/ FetchRespond(e) /\ fetchSt'[e] \in {"failed", "threw"}
  \/ JsonDone(e) /\ fetchSt'[e] = "threw"
  \/ Pending(e) /\ (WsError(e) \/ WsClose(e))
  \/ respondTimer = e /\ RespondTimerFire

\* C9: every failure during an exchange leaves the session clean, so that
\* the next sendMessage starts from a fresh handle creation.
C9_FailureLeavesCleanSession ==
  [][\A e \in Exchanges : FailureOf(e) => Clean']_vars

\* a handler that only runs the teardown (and possibly a reject)
TeardownStep ==
  \/ \E e \in Exchanges : WsError(e) \/ WsClose(e)
  \/ RespondTimerFire
  \/ ConversationTimerFire

\* C10: teardown raises no error in any session state, and a teardown of an
\* already torn-down session changes nothing.
C10_TeardownSafeIdempotent ==
  [][TeardownStep =>
        /\ ~crashed'
        /\ LET once == cleanup(Cur)
           IN ~once.crashed /\ cleanup(once) = once]_vars

\* C11: a sendMessage made after an exchange of the session has completed
\* successfully, with the completed exchange's socket untouched since and
\* nothing else underway, reuses the handle of that exchange: it issues no
\* creation request and starts at once on the handle the session still holds.
C11_HandleReusedAfterSuccess ==
  [][\A e \in Exchanges : \A d \in Exchanges :
       (/\ SendMessage(e)
        /\ promise[d] = "resolved"
        /\ fetchSt[d] = "ok"
        /\ sock[d] \in {"open", "terminated"}
        /\ \A x \in Exchanges \ {d} : pc[x] = "idle") =>
          /\ fetchSt'[e] = "none"
          /\ pc'[e] = "started"
          /\ ~conversationExpired'
          /\ <<conversationId', clientId', conversationSignature'>> # <<0, 0, 0>>]_vars

HandleFields == <<conversationId, clientId, conversationSignature>>

\* C19: in every state the three handle fields are all present or all
\* absent, and a session that is not expired has all three.
C19_HandleAllOrNothing ==
  /\ \/ \A i \in 1..3 : HandleFields[i] # 0
     \/ \A i \in 1..3 : HandleFields[i] = 0
  /\ ~conversationExpired => \A i \in 1..3 : HandleFields[i] # 0

\* query frames written so far that carry the handle h
QueriesWith(h) ==
  UNION {{<<k, i>> : i \in {j \in DOMAIN sent[k] :
                              /\ sent[k][j].kind = "query"
                              /\ <<sent[k][j].conversationId,
                                   sent[k][j].clientId,
                                   sent[k][j].conversationSignature>> = h}} :
         k \in Exchanges}

\* the 'message' event of exchange e that carries the text '{}'
AckStep(e) ==
  /\ ~crashed
  /\ sock[e] = "open"
  /\ received[e] < MaxReceived
  /\ Commit(OnMessage(Cur, e, <<"ack">>))

\* C12: a query frame written with a handle carries isStartOfSession = true
\* exactly when no query frame was written with that handle before; the flag
\* is true after a successful handle creation, and false with the
\* conversation timer armed after a query frame has been sent.
C12_StartOfSessionOncePerHandle ==
  [][\A e \in Exchanges :
       /\ (Len(sent'[e]) > Len(sent[e])
             /\ sent'[e][Len(sent'[e])].kind = "query"
             /\ HandleFields # <<0, 0, 0>>) =>
               /\ sent'[e][Len(sent'[e])].conversationId = conversationId
               /\ sent'[e][Len(sent'[e])].isStartOfSession
                     = (QueriesWith(HandleFields) = {})
       /\ (fetchSt[e] = "json" /\ fetchSt'[e] = "ok") => isStartOfSession'
       /\ (AckStep(e) /\ ~crashed') =>
             ~isStartOfSession' /\ conversationTimer']_vars

\* two query frames went out with one handle: the first flagged, the second not
C12_Witness ==
  \E k \in Exchanges : \E i, j \in DOMAIN sent[k] :
    /\ i < j
    /\ sent[k][i].kind = "query" /\ sent[k][j].kind = "query"
    /\ sent[k][i].conversationId # 0
    /\ sent[k][i].conversationId = sent[k][j].conversationId
    /\ sent[k][i].isStartOfSession /\ ~sent[k][j].isStartOfSession

\* keepalive frames exchange e has written, on whichever socket
KeepalivesBy(e) ==
  UNION {{<<k, i>> : i \in {j \in DOMAIN sent[k] :
                              /\ sent[k][j].kind = "keepalive"
                              /\ sent[k][j].by = e}} :
         k \in Exchanges}

\* C18: after n inbound frames of an exchange exactly floor(n / 10)
\* keepalive frames have been sent for it: one on the 10th, 20th, 30th
\* frame and none on any other.
C18_KeepaliveOnEveryTenth ==
  \A e \in Exchanges :
    ~crashed => Cardinality(KeepalivesBy(e)) = received[e] \div KeepaliveEvery

\* C20: '/reset' tears the session object down at once: its sockets are
\* closed and both timers cancelled, and from then on no exchange of the
\* object is resolved and no progress is delivered.
C20_ResetTearsDown ==
  [][/\ Reset =>
          /\ \A k \in Exchanges : ~SocketLive(sock'[k])
          /\ ~conversationTimer'
          /\ respondTimer' = NoExchange
     /\ ~inSession =>
          \A e \in Exchanges :
            /\ Pending(e) => promise'[e] # "resolved"
            /\ thr'[e] = thr[e] \/ thr'[e] = "idle"]_vars

(* ------------------------- frame contents ----------------------------- *)
\* messageType of a fragment: "" when the fragment has none
MessageTypes == {"", "InternalSearchQuery"}

\* the fragment a type 1 frame embeds: update.arguments[0].messages[0]
Fragments ==
  [messageId : 1..MaxIds, text : 1..MaxTexts, messageType : MessageTypes]

\* response.item.messages of a type 2 frame; the handler does not read the
\* messageId of these fragments
ItemMessages ==
  UNION {[1..n -> {f \in Fragments : f.messageId = 1}] : n \in 0..MaxMessages}

\* updateMessages.findIndex(item => item.messageId === id); 0 stands for -1
findIndex(list, id) ==
  LET hits == {i \in DOMAIN list : list[i].messageId = id}
  IN IF hits = {} THEN 0 ELSE CHOOSE i \in hits : \A j \in hits : i <= j

\* a merge that appends every fragment
MergeUpdate_AlwaysPush(list, msg) == Append(list, msg)

\* A: push the fragment, or put it in the place of the one with its messageId
MergeUpdate(list, msg) ==
  LET targetIndex == findIndex(list, msg.messageId)
  IN IF targetIndex = 0 THEN Append(list, msg)
     ELSE [list EXCEPT ![targetIndex] = msg]

\* B: response.item.messages.filter(m => !m.messageType)
validMessages(msgs) == SelectSeq(msgs, LAMBDA m : m.messageType = "")

\* the first fragment without messageType
lastMessage_First(msgs) == validMessages(msgs)[1]

\* B: validMessages[validMessages.length - 1]
lastMessage(msgs) == validMessages(msgs)[Len(validMessages(msgs))]

\* a type 1 frame in the loop of the message handler
ReceiveUpdate(msg) ==
  /\ Len(seen) < MaxUpdates
  /\ seen' = Append(seen, msg)
  /\ IF variant = "A"
     THEN /\ updateMessages' = MergeUpdate(updateMessages, msg)
          /\ progress' = updateMessages'
          /\ UNCHANGED result
     ELSE IF msg.messageType = ""
          THEN /\ result' = [result EXCEPT !.text = msg.text]
               /\ progress' = <<msg>>
               /\ UNCHANGED updateMessages
          ELSE UNCHANGED <<updateMessages, result, progress>>
  /\ UNCHANGED <<completion, final, mainVars, thrVars, dispVars,
               cardVars>>

\* a type 2 frame in the loop of the message handler
ReceiveCompletion(msgs) ==
  /\ final.kind = "none"
  /\ completion' = msgs
  /\ IF variant = "A"
     THEN /\ final' = [kind |-> "list", messages |-> msgs, text |-> 0]
          /\ UNCHANGED result
     ELSE IF validMessages(msgs) # <<>>
          THEN /\ result' = [result EXCEPT !.text = lastMessage(msgs).text]
               /\ final' = [kind |-> "message", messages |-> <<>>,
                            text |-> result'.text]
          ELSE UNCHANGED <<result, final>>
  /\ UNCHANGED <<updateMessages, seen, progress, mainVars, thrVars, dispVars,
               cardVars>>

NextUpdates == \E msg \in Fragments : ReceiveUpdate(msg)

\* the partial updates of one exchange, for every sequence of fragments
SpecUpdates == Init /\ [][NextUpdates]_vars

\* the result object as the updates before the completion frame left it
InitCompletion ==
  /\ MainInit
  /\ updateMessages = <<>>
  /\ result \in [text : 0..MaxTexts]
  /\ seen = <<>>
  /\ progress = <<>>
  /\ completion = <<>>
  /\ final = [kind |-> "none", messages |-> <<>>, text |-> 0]
  /\ ThrottleInit
  /\ DispInit
  /\ CardInit

NextCompletion == \E msgs \in ItemMessages : ReceiveCompletion(msgs)

\* the completion frame of one exchange, for every message list
SpecCompletion == InitCompletion /\ [][NextCompletion]_vars

\* positions of the fragments received with messageId id
SeenAt(id) == {k \in DOMAIN seen : seen[k].messageId = id}

AnswersAt == {i \in DOMAIN completion : completion[i].messageType = ""}

\* the answer text of the value sendMessage resolved with
FinalText ==
  IF final.kind = "message" THEN final.text
  ELSE LET at == {i \in DOMAIN final.messages :
                    final.messages[i].messageType = ""}
       IN final.messages[CHOOSE i \in at : \A j \in at : j <= i].text

\* C16: a completion frame with exactly one fragment without messageType,
\* among any number of status fragments in any order, resolves sendMessage
\* with that fragment's text; with several, the answer is the last one.
C16_AnswerIsLastNonStatus ==
  /\ Cardinality(AnswersAt) = 1 =>
       /\ final.kind # "none"
       /\ \A i \in AnswersAt : FinalText = completion[i].text
  /\ (final.kind # "none" /\ AnswersAt # {}) =>
       \E i \in AnswersAt :
         /\ FinalText = completion[i].text
         /\ \A j \in AnswersAt : j <= i
  /\ final.kind = "list" => final.messages = completion

\* resolved with the text of the one answer, which status fragments follow
C16_Witness ==
  /\ variant = "B"
  /\ final.kind = "message"
  /\ Len(completion) = 3
  /\ AnswersAt = {2}
  /\ final.text = completion[2].text
  /\ completion[1].text # completion[2].text

(* ----------------------- throttled progress --------------------------- *)
\* the clock moves on a grid of a tenth of the throttle's wait
TickMs == ThrottleMs \div 10

\* the span during which fragments keep arriving: four waits
ScenarioMs == 4 * ThrottleMs

\* lodash debounce, shouldInvoke(time), with maxWait = wait
shouldInvoke(time) ==
  \/ lastCallTime = NoTime
  \/ time - lastCallTime >= ThrottleMs
  \/ time - lastCallTime < 0
  \/ time - lastInvokeTime >= ThrottleMs

\* lodash debounce, remainingWait(time), with maxWait = wait
remainingWait(time) ==
  LET timeWaiting == ThrottleMs - (time - lastCallTime)
      maxLeft == ThrottleMs - (time - lastInvokeTime)
  IN IF timeWaiting < maxLeft THEN timeWaiting ELSE maxLeft

\* lodash debounce, invokeFunc(time): onProgress runs with the list as it is
invokeFunc(time) ==
  /\ lastArgs' = FALSE
  /\ lastInvokeTime' = time
  /\ calls' = calls + 1
  /\ fresh' = TRUE

\* a type 1 frame arrives and its fragment is passed on: A calls the
\* throttled function (lodash debounced()), B calls onProgress itself
Fragment ==
  /\ ~fedNow
  /\ fedNow' = TRUE
  /\ everyTick' = (everyTick /\ now < ScenarioMs)
  /\ now' = now
  /\ IF variant = "A"
     THEN /\ lastCallTime' = now
          /\ IF shouldInvoke(now)
             THEN /\ timerId' = now + ThrottleMs
                  /\ invokeFunc(now)
             ELSE /\ lastArgs' = TRUE
                  /\ fresh' = FALSE
                  /\ timerId' = IF timerId = NoTime THEN now + ThrottleMs
                                ELSE timerId
                  /\ UNCHANGED <<lastInvokeTime, calls>>
     ELSE /\ calls' = calls + 1
          /\ fresh' = TRUE
          /\ UNCHANGED <<lastCallTime, lastInvokeTime, timerId, lastArgs>>
  /\ UNCHANGED <<mainVars, fragVars, dispVars, cardVars>>

\* lodash debounce, timerExpired() with trailingEdge(time)
TimerExpired ==
  /\ timerId # NoTime
  /\ now >= timerId
  /\ IF shouldInvoke(now)
     THEN /\ timerId' = NoTime
          /\ IF lastArgs THEN invokeFunc(now)
             ELSE UNCHANGED <<lastArgs, lastInvokeTime, calls, fresh>>
     ELSE /\ timerId' = now + remainingWait(now)
          /\ UNCHANGED <<lastArgs, lastInvokeTime, calls, fresh>>
  /\ UNCHANGED <<now, lastCallTime, fedNow, everyTick, mainVars, fragVars,
                 dispVars, cardVars>>

\* time passes; a timer that is due runs first
Tick ==
  /\ now < MaxTicks * TickMs
  /\ timerId = NoTime \/ now < timerId
  /\ now' = now + TickMs
  /\ fedNow' = FALSE
  /\ everyTick' = (everyTick /\ (fedNow \/ now >= ScenarioMs))
  /\ UNCHANGED <<lastCallTime, lastInvokeTime, timerId, lastArgs, calls,
                 fresh, mainVars, fragVars, dispVars, cardVars>>

NextThrottle == Fragment \/ TimerExpired \/ Tick

\* progress calls of one exchange against the clock
SpecThrottle == Init /\ [][NextThrottle]_vars

\* C17: the caller gets at most one onProgress call per 500 ms; when
\* fragments arrive every 50 ms during 2 s it gets at most
\* ceil(2000/500) + 1 = 5 calls, and the last of them, once the throttle has
\* nothing left to deliver, carries the final fragment state.
C17_ProgressThrottled ==
  /\ calls <= now \div ThrottleMs + 1
  /\ (everyTick /\ now >= ScenarioMs) =>
       /\ calls <= ScenarioMs \div ThrottleMs + 1
       /\ timerId = NoTime => fresh

(* ----------------------- the session against time --------------------- *)
\* 24 hours in ms
DayMs == 24 * 3600 * 1000

\* the 'message' events followed against time carry one frame each, as the
\* backend sends them: the acknowledgement first, then the stream
TimedFrames(e) ==
  IF received[e] = 0 THEN {"ack"} ELSE {"update", "complete"}

\* the first exchange is followed through a long stream, later ones as far
\* as elsewhere
TimedMessage(e) ==
  /\ ~crashed
  /\ sock[e] = "open"
  /\ received[e] < (IF e = 1 THEN MaxTimedReceived ELSE MaxReceived)
  /\ \E f \in TimedFrames(e) : Commit(OnMessage(Cur, e, <<f>>))

\* setTimeout(..., 8000) has run out
TimedRespondTimerFire ==
  /\ sinceRespond >= RespondMs
  /\ RespondTimerFire

\* setTimeout(..., 3600 * 24) has run out
TimedConversationTimerFire ==
  /\ sinceArmed >= ConversationTimerMs
  /\ ConversationTimerFire

\* ms until each armed timer is due
Dues ==
  {RespondMs - sinceRespond : x \in {y \in {respondTimer} : y # NoExchange}}
  \cup {ConversationTimerMs - sinceArmed :
           x \in {y \in {conversationTimer} : y}}

\* time passes up to the next armed timer, or a day when none is armed; a
\* due timer runs first, and so does the outcome of a handshake
\* (handshakeTimeout: 5000) and the 'close' of a destroyed socket
Advance ==
  /\ ~crashed
  /\ \A k \in Exchanges : sock[k] \in {"none", "open", "closed"}
  /\ LET d == IF Dues = {} THEN DayMs
              ELSE CHOOSE x \in Dues : \A y \in Dues : x <= y
     IN /\ d > 0
        /\ sinceArmed < DayMs
        /\ Commit([Cur EXCEPT
                     !.sinceArmed = IF @ + d > DayMs THEN DayMs ELSE @ + d,
                     !.sinceRespond =
                        IF respondTimer = NoExchange THEN 0 ELSE @ + d])

NextTimed ==
  \/ \E e \in Exchanges : SendMessage(e)
  \/ \E e \in Exchanges : FetchRespond(e)
  \/ \E e \in Exchanges : JsonDone(e)
  \/ \E e \in Exchanges : WsOpen(e)
  \/ \E e \in Exchanges : TimedMessage(e)
  \/ \E e \in Exchanges : WsError(e)
  \/ \E e \in Exchanges : WsClose(e)
  \/ TimedRespondTimerFire
  \/ TimedConversationTimerFire
  \/ Advance

\* the session with both timers run against the clock
SpecTimed == Init /\ [][NextTimed]_vars

\* C13: once 24 hours have passed since the conversation timer was last
\* armed the session is expired, and the next sendMessage, made when every
\* earlier call has obtained its handle, issues a creation request and opens
\* no socket before the request is answered.
C13_ExpiredAfterADay ==
  /\ [](sinceArmed >= DayMs => conversationExpired)
  /\ [][\A e \in Exchanges :
          (/\ SendMessage(e)
           /\ sinceArmed >= DayMs
           /\ \A d \in Exchanges : d < e => fetchSt[d] = "ok") =>
             /\ fetchSt'[e] = "inflight"
             /\ sock'[e] = "none"]_vars

\* the conversation timer ran out during exchange 1, a day passed, and the
\* second sendMessage is waiting for its new handle
C13_Witness ==
  /\ sinceArmed >= DayMs
  /\ conversationExpired
  /\ received[1] = MaxTimedReceived
  /\ Pending(1)
  /\ fetchSt[1] = "ok"
  /\ fetchSt[2] = "inflight"
  /\ sock[2] = "none"

\* C14: the conversation timer runs for 24 hours: it never fires less than
\* 24 hours after it was last armed.
C14_TimerPeriodIsADay ==
  [][TimedConversationTimerFire => sinceArmed >= DayMs]_vars

(* ------------------- the exchange, frame by frame --------------------- *)
\* C23: when the socket an exchange opened reports open, the protocol frame
\* is written to that socket as the next frame of the exchange and the
\* respond timer is armed for the exchange.
C23_OpenSendsProtocolFrame ==
  [][\A e \in Exchanges :
       WsOpen(e) =>
         /\ Len(sent'[e]) = Len(sent[e]) + 1
         /\ sent'[e][Len(sent'[e])].kind = "protocol"
         /\ sent'[e][Len(sent'[e])].by = e
         /\ respondTimer' = e]_vars

\* the 'message' event of exchange e that carries payload p
MessageStep(e, p) ==
  /\ ~crashed
  /\ sock[e] = "open"
  /\ received[e] < MaxReceived
  /\ Commit(OnMessage(Cur, e, p))

\* the query frames exchange e has written, in the frames snt
QueriesBy(snt, e) ==
  UNION {{<<k, i>> : i \in {j \in DOMAIN snt[k] :
                              /\ snt[k][j].kind = "query"
                              /\ snt[k][j].by = e}} :
         k \in Exchanges}

\* C24: the query frame of an exchange is written exactly once: a payload
\* that carries the empty-object frame while no query was written yet writes
\* it, a payload without that frame does not, and neither does a payload
\* that comes after the query was written.
C24_QueryOnceOnAck ==
  [][\A e \in Exchanges : \A p \in Payloads :
       (MessageStep(e, p) /\ ~crashed') =>
         LET acked == \E i \in 1..Len(p) : p[i] = "ack"
             before == Cardinality(QueriesBy(sent, e))
             after == Cardinality(QueriesBy(sent', e))
         IN IF acked /\ before = 0 THEN after = 1 ELSE after = before]_vars

\* a completion frame, whatever its message list holds
CompletionKinds == {"complete", "completeEmpty"}

\* C25: a payload with a completion frame, received while the exchange is
\* pending, ends the exchange: its promise is resolved, the session is
\* marked expired and its socket is torn down, whatever the frame's message
\* list holds.
C25_CompletionEndsExchange ==
  [][\A e \in Exchanges : \A p \in Payloads :
       (/\ MessageStep(e, p)
        /\ Pending(e)
        /\ Len(p) = 1
        /\ p[1] \in CompletionKinds
        /\ ~crashed') =>
         /\ promise'[e] = "resolved"
         /\ conversationExpired'
         /\ ~SocketLive(sock'[e])]_vars

\* C26: a payload with a session-closed frame, received while the exchange
\* is pending, resolves the promise of the exchange and tears its socket
\* down.
C26_ClosedFrameEndsExchange ==
  [][\A e \in Exchanges :
       (MessageStep(e, <<"closed">>) /\ Pending(e) /\ ~crashed') =>
         /\ promise'[e] = "resolved"
         /\ ~SocketLive(sock'[e])]_vars

\* frames neither revision has a branch for
IgnoredKinds == {"other", "noFragment"}

\* C27: a payload of one frame of an unrecognised shape is ignored without
\* error: no exception is raised and the handle, the settlement of every
\* exchange, the progress delivered and the socket are as before; the respond
\* timer is rearmed for the exchange and the payload is counted.
C27_UnrecognisedFrameIgnored ==
  [][\A e \in Exchanges : \A f \in IgnoredKinds :
       MessageStep(e, <<f>>) =>
         /\ ~crashed'
         /\ HandleFields' = HandleFields
         /\ conversationExpired' = conversationExpired
         /\ promise' = promise
         /\ settleCalls' = settleCalls
         /\ thr' = thr
         /\ lateProgress' = lateProgress
         /\ sock' = sock
         /\ ws' = ws
         /\ respondTimer' = e
         /\ received'[e] = received[e] + 1]_vars

Settled(e) == promise[e] \in {"resolved", "rejected"}

\* C29: a 'close' or 'error' event of the socket of a settled exchange
\* leaves a later, pending exchange that has its socket alone: that socket,
\* the handle, both timers and the callers waiting for the handle creation
\* are as before, and no exception is raised.
C29_StaleEventLeavesLaterExchange ==
  [][\A d, e \in Exchanges :
       (/\ d < e
        /\ Settled(d)
        /\ Pending(e)
        /\ SocketLive(sock[e])
        /\ WsClose(d) \/ WsError(d)) =>
         /\ ~crashed'
         /\ sock'[e] = sock[e]
         /\ ws' = ws
         /\ HandleFields' = HandleFields
         /\ conversationExpired' = conversationExpired
         /\ conversationTimer' = conversationTimer
         /\ respondTimer' = respondTimer
         /\ initConversationCallback' = initConversationCallback]_vars

(* ----------------------------- termination ---------------------------- *)
\* what the runtime and the libraries guarantee: an armed timer fires, the
\* creation request and the reading of its body end, a handshake ends within
\* handshakeTimeout with 'open' or 'error', and a socket that was terminated
\* or failed emits its 'close'.  The backend owes nothing: an open socket
\* may stay silent and open for ever.
Fairness ==
  /\ WF_vars(RespondTimerFire)
  /\ WF_vars(ConversationTimerFire)
  /\ \A e \in Exchanges :
       /\ WF_vars(ThrottleFire(e))
       /\ WF_vars(FetchRespond(e))
       /\ WF_vars(JsonDone(e))
       /\ WF_vars(sock[e] = "connecting" /\ (WsOpen(e) \/ WsError(e)))
       /\ WF_vars(sock[e] # "open" /\ (WsError(e) \/ WsClose(e)))

SpecFair == Init /\ [][Next]_vars /\ Fairness

\* C28: every sendMessage call is eventually settled, resolved or rejected,
\* unless an exception has ended the process before.
C28_EverySendMessageSettles ==
  \A e \in Exchanges : Pending(e) ~> (~Pending(e) \/ crashed)

(* --------------------------- the dispatcher --------------------------- *)
\* `data.sender.sender_id?.user_id || 'common'`
UserIdOf(w) == IF hasUserId[w] THEN w ELSE Common

\* the 'im.message.receive_v1' handler for a text message m, up to the
\* first await of messageHandler: the cache test and entry, then either
\* `delete session[userID]` or createCompletion's lookup of the session
\* object and its sendMessage call
ReceiveEvent(m) ==
  /\ deliveries < MaxDeliveries
  /\ deliveries' = deliveries + 1
  /\ UNCHANGED <<hasUserId, mainVars, fragVars, thrVars, cardVars>>
  /\ IF m \in cache
     THEN UNCHANGED <<session, cache, objects, handled, forwarded, current>>
     ELSE LET w == m[1]
              userID == UserIdOf(w)
          IN /\ cache' = cache \cup {m}
             /\ handled' = [handled EXCEPT ![m] = @ + 1]
             /\ IF m[2] = "/reset"
                THEN /\ session' = [session EXCEPT ![userID] = 0]
                     /\ current' = [current EXCEPT ![w] = 0]
                     /\ UNCHANGED <<objects, forwarded>>
                ELSE LET chat == IF session[userID] = 0 THEN objects + 1
                                 ELSE session[userID]
                     IN /\ objects' = IF session[userID] = 0
                                      THEN objects + 1 ELSE objects
                        /\ session' = [session EXCEPT ![userID] = chat]
                        /\ forwarded' = forwarded \cup {<<w, chat>>}
                        /\ current' = [current EXCEPT ![w] = chat]

\* node-cache drops the entry of m once its ttl of 3600 seconds has passed
ExpireEntry(m) ==
  /\ m \in cache
  /\ cache' = cache \ {m}
  /\ UNCHANGED <<session, hasUserId, objects, handled, forwarded, current,
                 deliveries, mainVars, fragVars, thrVars, cardVars>>

NextDispatcher ==
  \/ \E m \in MessageIds : ReceiveEvent(m)
  \/ \E m \in MessageIds : ExpireEntry(m)

\* the permission that puts user_id into the events is granted per sender
\* or not at all
InitDispatcher ==
  /\ MainInit /\ FragInit /\ ThrottleInit /\ CardInit
  /\ DispStart
  /\ hasUserId \in [Senders -> BOOLEAN]

SpecDispatcher == InitDispatcher /\ [][NextDispatcher]_vars

\* C21: messages of two different senders never go to the same BingChat
\* object, and the messages a sender sends between two of its '/reset'
\* commands all go to one object.
C21_PrivateSessionPerUser ==
  /\ [](\A f, g \in forwarded : f[1] # g[1] => f[2] # g[2])
  /\ [][\A w \in Senders :
          (current[w] # 0 /\ current'[w] # 0) => current'[w] = current[w]]_vars

\* C22: messageHandler runs at most once for a message id, however often
\* and whenever its receive event is delivered.
C22_HandledOnlyOnce ==
  \A m \in MessageIds : handled[m] <= 1

(* ------------------------ the progressive reply ----------------------- *)
\* client.im.message.reply / patch with a card: the request as issued
Render(op, updating) == [op |-> op, updating |-> updating]

\* what a card-creation request comes back with: a response with
\* data.message_id, a response without it, or an exception
ReplyOutcomes == {"ok", "noId", "throws"}

\* onProgress(partialMessage), up to its first await
OnProgress ==
  /\ progressCalls < MaxProgress
  /\ progressCalls' = progressCalls + 1
  /\ IF replyStatus \in {"replying", "end"}
     THEN UNCHANGED <<replyStatus, creating, renders>>
     ELSE IF cardID = 0
          THEN /\ replyStatus' = "replying"
               /\ creating' = TRUE
               /\ renders' = Append(renders, Render("reply", TRUE))
          ELSE /\ renders' = Append(renders, Render("patch", TRUE))
               /\ UNCHANGED <<replyStatus, creating>>
  /\ UNCHANGED <<cardID, chatMessage, completionPc, mainVars, fragVars,
                 thrVars, dispVars>>

\* onProgress after `await replyCard(messageID, partialMessage, true)`
CardReplied(outcome) ==
  /\ creating
  /\ creating' = FALSE
  /\ IF outcome = "throws"
     THEN UNCHANGED <<cardID, replyStatus, renders>>
     ELSE /\ cardID' = IF outcome = "ok" THEN 1 ELSE 0
          /\ IF chatMessage
             THEN /\ replyStatus' = "end"
                  /\ renders' = Append(renders, Render("patch", FALSE))
             ELSE /\ replyStatus' = "replied"
                  /\ UNCHANGED renders
  /\ UNCHANGED <<chatMessage, completionPc, progressCalls, mainVars,
                 fragVars, thrVars, dispVars>>

\* messageHandler after `chatMessage = await createCompletion(...)`
CompletionResolved ==
  /\ completionPc = "awaiting"
  /\ completionPc' = "resolved"
  /\ chatMessage' = TRUE
  /\ CASE replyStatus = "noReply" ->
            /\ replyStatus' = "end"
            /\ renders' = Append(renders, Render("reply", FALSE))
       [] replyStatus = "replied" ->
            /\ replyStatus' = "end"
            /\ renders' = Append(renders, Render("patch", FALSE))
       [] OTHER -> UNCHANGED <<replyStatus, renders>>
  /\ UNCHANGED <<cardID, creating, progressCalls, mainVars, fragVars,
                 thrVars, dispVars>>

\* createCompletion throws: the catch block answers with a text, no card
CompletionRejected ==
  /\ completionPc = "awaiting"
  /\ completionPc' = "rejected"
  /\ UNCHANGED <<cardID, replyStatus, chatMessage, creating, renders,
                 progressCalls, mainVars, fragVars, thrVars, dispVars>>

NextCards ==
  \/ OnProgress
  \/ \E outcome \in ReplyOutcomes : CardReplied(outcome)
  \/ CompletionResolved
  \/ CompletionRejected

SpecCards == Init /\ [][NextCards]_vars

\* C30: at most one card is created for the message; at most one final
\* render is issued, and exactly one once the exchange has resolved and no
\* card creation is awaited; no in-progress render is issued after the final
\* one.
C30_OneCardOneFinalRender ==
  /\ Cardinality({i \in DOMAIN renders : renders[i].op = "reply"}) <= 1
  /\ Cardinality({i \in DOMAIN renders : ~renders[i].updating}) <= 1
  /\ (completionPc = "resolved" /\ ~creating) =>
        Cardinality({i \in DOMAIN renders : ~renders[i].updating}) = 1
  /\ \A i, j \in DOMAIN renders :
        (i < j /\ ~renders[i].updating) => ~renders[j].updating
====
